---- MODULE Spec2Model ----
(***************************************************************************)
(* backitup: `backup(path)` renames an existing file or directory to a     *)
(* timestamped name "#<name>-<timestamp>(-<microseconds>)#" in the same    *)
(* parent directory (src/src/lib.rs).                                      *)
(*                                                                         *)
(* The model follows one call of `backup` statement by statement; the      *)
(* steps are cut at the filesystem calls (exists, exists in the loop,      *)
(* rename), which is where another caller can interleave.  The filesystem  *)
(* namespace, the wall clock and the std::path / std::fs primitives the    *)
(* function calls are modelled explicitly.                                 *)
(***************************************************************************)
EXTENDS Integers, Sequences, FiniteSets, TLC

(***************************************************************************)
(* Bounds of the model.                                                    *)
(***************************************************************************)
\* The clock advances MaxTicks times, by one sub-second unit each time.
MaxTicks == 3
\* Number of distinct sub-second values per second (1000000 in chrono).
MicrosPerSec == 2
\* Calls of backup the caller makes when it runs alone.
MaxCalls == 3
\* Calls of backup each of two concurrent callers makes.
MaxRaceCalls == 2
\* Number of fresh contents written by the callers (File::create + write_all).
MaxData == 3

(***************************************************************************)
(* Paths.  A path is the sequence of its components (std::path::Path);     *)
(* the empty sequence is the empty string "".                              *)
(***************************************************************************)
\* Component names that are not valid UTF-8 (OsStr::to_str gives None).
NonUtf8 == {"<0xFF>"}

\* The paths handed to backup in this model.
FilePaths == {<<"f">>, <<"d", "f">>, <<"<0xFF>", "f">>}
DirPaths == {<<"d">>, <<"<0xFF>">>}
FixedPaths == {<<>>, <<"/">>, <<"..">>, <<".">>, <<"d", "..">>, <<"<0xFF>", "..">>}
Paths == FilePaths \cup DirPaths \cup FixedPaths

Front(s) == SubSeq(s, 1, Len(s) - 1)
Last(s) == s[Len(s)]

\* Option values.
None == [some |-> FALSE]
Some(x) == [some |-> TRUE, val |-> x]

\* Path::parent(): None for the empty path and for the root, otherwise the
\* path without its last component (possibly the empty path "").
PathParent(path) ==
    IF path = <<>> \/ path = <<"/">> THEN None ELSE Some(Front(path))

\* Path::file_name(): the last component when it is a normal one; None for
\* the empty path, the root, and a path ending in ".." (or being ".").
PathFileName(path) ==
    IF path = <<>> THEN None
    ELSE IF Last(path) \in {"/", "..", "."} THEN None
    ELSE Some(Last(path))

\* OsStr::to_str() of a path: None when a component is not valid UTF-8.
PathToStr(path) ==
    IF \E i \in 1..Len(path) : path[i] \in NonUtf8 THEN None ELSE Some(path)

\* OsStr::to_str() of one component.
NameToStr(name) ==
    IF name \in NonUtf8 THEN None ELSE Some(name)

(***************************************************************************)
(* The wall clock: Local::now().                                           *)
(***************************************************************************)
Pad2(n) == IF n < 10 THEN "0" \o ToString(n) ELSE ToString(n)

\* time.format("%Y-%m-%d-%H-%M-%S"): only the seconds field varies here.
FormatTime(t) == "2023-06-27-21-01-" \o Pad2(t.sec)

\* time.timestamp_subsec_micros()
SubsecMicros(t) == t.us

\* The last instant of the clock.
Horizon == [sec |-> MaxTicks \div MicrosPerSec, us |-> MaxTicks % MicrosPerSec]

(***************************************************************************)
(* The filesystem: a function from locations (normalised paths below the   *)
(* working directory) to entries.                                          *)
(***************************************************************************)
FileEntry(data) == [kind |-> "file", data |-> data]
DirEntry == [kind |-> "dir", data |-> 0]

\* The location a path names: "." components dropped.
Loc(path) == SelectSeq(path, LAMBDA c : c # ".")

Under(l, root) == Len(l) >= Len(root) /\ SubSeq(l, 1, Len(root)) = root
StrictlyUnder(l, root) == Len(l) > Len(root) /\ Under(l, root)

IsDirAt(fs, l) == l = <<>> \/ (l \in DOMAIN fs /\ fs[l].kind = "dir")

\* What is stored at and below a location, keyed by the relative path.
Subtree(fs, root) ==
    [s \in {SubSeq(l, Len(root) + 1, Len(l)) : l \in {x \in DOMAIN fs : Under(x, root)}}
        |-> fs[root \o s]]

\* Whether an entry is there (metadata() would succeed without I/O failure).
EntryAt(fs, path) ==
    IF path = <<>> THEN FALSE
    ELSE IF path = <<"/">> THEN TRUE
    ELSE IF Last(path) = ".." THEN IsDirAt(fs, Loc(Front(path)))
    ELSE Loc(path) = <<>> \/ Loc(path) \in DOMAIN fs

\* Path::exists(): false when there is no entry, and also when the
\* metadata call fails (the error is swallowed).
PathExists(fs, path, fault) == ~fault /\ EntryAt(fs, path)

\* Whether fs::rename(src, dst) succeeds, I/O failures aside: the source is
\* there, and the destination is free or can be replaced (a file by a file,
\* an empty directory by a directory).
CanRename(fs, src, dst) ==
    LET s == Loc(src)  d == Loc(dst) IN
    /\ s \in DOMAIN fs
    /\ ~Under(d, s)
    /\ IsDirAt(fs, Front(d))
    /\ \/ d \notin DOMAIN fs
       \/ fs[s].kind = "file" /\ fs[d].kind = "file"
       \/ /\ fs[s].kind = "dir" /\ fs[d].kind = "dir"
          /\ ~\E l \in DOMAIN fs : StrictlyUnder(l, d)

\* Variant: only the entry itself is moved, what is below it is dropped.
RenamedShallow(fs, src, dst) ==
    LET s == Loc(src)
        d == Loc(dst)
        kept == {l \in DOMAIN fs : ~Under(l, s) /\ ~Under(l, d)}
    IN [l \in kept \cup {d} |-> IF l = d THEN fs[s] ELSE fs[l]]

\* The filesystem after a successful fs::rename(src, dst): everything at
\* and below src is at and below dst, a replaced destination is gone.
Renamed(fs, src, dst) ==
    LET s == Loc(src)
        d == Loc(dst)
        kept == {l \in DOMAIN fs : ~Under(l, s) /\ ~Under(l, d)}
        moved == {d \o SubSeq(l, Len(s) + 1, Len(l)) : l \in {x \in DOMAIN fs : Under(x, s)}}
    IN [l \in kept \cup moved |->
            IF l \in moved THEN fs[s \o SubSeq(l, Len(d) + 1, Len(l))] ELSE fs[l]]

\* Variant: a copy followed by a delete; a failure in between leaves the
\* copy behind.
RenameOutcomeByCopy(fs, src, dst, fault) ==
    IF ~fault /\ CanRename(fs, src, dst)
    THEN [ok |-> TRUE, fs |-> Renamed(fs, src, dst)]
    ELSE IF Loc(src) \in DOMAIN fs /\ Loc(dst) \notin DOMAIN fs
    THEN [ok |-> FALSE,
          fs |-> [l \in DOMAIN fs \cup {Loc(dst)} |->
                    IF l = Loc(dst) THEN fs[Loc(src)] ELSE fs[l]]]
    ELSE [ok |-> FALSE, fs |-> fs]

\* fs::rename(src, dst): whether it succeeded and the filesystem it leaves.
\* It is atomic: a failed rename leaves everything as it was.
RenameOutcome(fs, src, dst, fault) ==
    IF ~fault /\ CanRename(fs, src, dst)
    THEN [ok |-> TRUE, fs |-> Renamed(fs, src, dst)]
    ELSE [ok |-> FALSE, fs |-> fs]

(***************************************************************************)
(* Results of backup: Result<PathBuf, std::io::Error>.                     *)
(***************************************************************************)
Ok(path) == [ok |-> TRUE, kind |-> "Ok", msg |-> "", path |-> path]
Err(kind, msg) == [ok |-> FALSE, kind |-> kind, msg |-> msg, path |-> <<>>]
NoResult == [ok |-> FALSE, kind |-> "", msg |-> "", path |-> <<>>]

\* Variant: an empty parent is kept as it is.
ParentOfNoDot(path) ==
    LET x == PathParent(path) IN
    IF ~x.some THEN Err("Unsupported", "Path is root.")
    ELSE IF ~PathToStr(x.val).some THEN Err("Unsupported", "Path is not a valid UTF-8.")
    ELSE Ok(x.val)

\* lines 112-125: the parent directory as a string, "" replaced by ".".
ParentOf(path) ==
    LET x == PathParent(path) IN
    IF ~x.some THEN Err("Unsupported", "Path is root.")
    ELSE IF ~PathToStr(x.val).some THEN Err("Unsupported", "Path is not a valid UTF-8.")
    ELSE IF x.val = <<>> THEN Ok(<<".">>)
    ELSE Ok(x.val)

\* lines 127-139: the file name as a string.
FileNameOf(path) ==
    LET x == PathFileName(path) IN
    IF ~x.some THEN Err("Unsupported", "Path ends in '..'.")
    ELSE IF ~NameToStr(x.val).some THEN Err("Unsupported", "Path is not a valid UTF-8.")
    ELSE Ok(x.val)

\* Variant: the shape of the path is checked before its existence.
ValidationShapeFirst(fs, path, fault) ==
    IF ~ParentOf(path).ok THEN ParentOf(path)
    ELSE IF ~FileNameOf(path).ok THEN FileNameOf(path)
    ELSE IF ~PathExists(fs, path, fault) THEN Err("NotFound", "Path does not exist.")
    ELSE Ok(path)

\* lines 107-139: the checks made before a name is generated; the first
\* failing one is returned, Ok(path) when all pass.
Validation(fs, path, fault) ==
    IF ~PathExists(fs, path, fault) THEN Err("NotFound", "Path does not exist.")
    ELSE IF ~ParentOf(path).ok THEN ParentOf(path)
    ELSE IF ~FileNameOf(path).ok THEN FileNameOf(path)
    ELSE Ok(path)

\* line 143: format!("{}/#{}-{}#", parent, filename, &time)
BackupName(parent, filename, time) ==
    parent \o << "#" \o filename \o "-" \o time \o "#" >>

\* Variant: the microseconds are left out of the name.
BackupNameNoMicros(parent, filename, t) ==
    parent \o << "#" \o filename \o "-" \o FormatTime(t) \o "#" >>

\* lines 148-156: one loop iteration's name, from one clock sample.
BackupNameMicros(parent, filename, t) ==
    LET micros == SubsecMicros(t)
        time_fmt == FormatTime(t)
    IN parent \o << "#" \o filename \o "-" \o time_fmt \o "-" \o ToString(micros) \o "#" >>

(***************************************************************************)
(* State.                                                                  *)
(***************************************************************************)
VARIABLES
    fs,           \* the filesystem namespace
    now,          \* the wall clock, [sec, us]
    target,       \* the path the callers create and back up
    nextData,     \* the next fresh content
    calls,        \* calls[p]: number of calls of backup p has still to make
    pc,           \* pc[p]: "idle", "probe" (line 147), "rename" (line 160), "done"
    parent,       \* parent[p]: the local `parent`
    filename,     \* filename[p]: the local `filename`
    time,         \* time[p]: the local `time` of line 142
    backup_name,  \* backup_name[p]: the local `backup_name`
    result,       \* result[p]: the value the call returned
    obs,          \* obs[p]: what was observed of the call in progress (history variable)
    hist          \* the calls that returned Ok: path and moved content (history variable)

vars == <<fs, now, target, nextData, calls, pc, parent, filename, time,
          backup_name, result, obs, hist>>

locals == <<parent, filename, time, backup_name>>

Callers == {"a", "b"}

\* What is recorded of a call: the filesystem and whether the target was
\* there when it was called (fs0, existed), the first clock sample (t0),
\* whether the first name was free when probed (firstFree), whether the loop
\* body ran (looped), its last clock sample (sample), whether a sample had a
\* smaller microsecond value than the one before (wrapped), the number of
\* changes made to the filesystem (writes), whether an entry was at the
\* backup name when the rename was made (occupied), and which filesystem
\* call failed, if any (faulted).
NoObs == [fs0 |-> <<>>, existed |-> FALSE, t0 |-> [sec |-> 0, us |-> 0],
          looped |-> FALSE, firstFree |-> FALSE, sample |-> [sec |-> 0, us |-> 0],
          wrapped |-> FALSE,
          writes |-> 0, occupied |-> FALSE, faulted |-> "none"]

\* The filesystem a behaviour starts from: the parent directory of the
\* target, when it has one, exists.
BaseFs(path) ==
    IF Len(path) = 2 THEN [l \in {Front(path)} |-> DirEntry] ELSE <<>>

\* The filesystem with a file written (created, or truncated and rewritten).
WithFile(f, l, data) ==
    [x \in DOMAIN f \cup {l} |-> IF x = l THEN FileEntry(data) ELSE f[x]]

\* The filesystems a behaviour may start from: the base one, and for a
\* target that can be backed up also one where files already sit at the
\* names of the first second, without and with microseconds.
StartFs(path) ==
    LET t == [sec |-> 0, us |-> 0]
        par == Front(Loc(path))
        taken == WithFile(WithFile(BaseFs(path),
                     BackupName(par, Last(path), FormatTime(t)), 0),
                     BackupNameMicros(par, Last(path), t), 0)
    IN IF path \in {<<"f">>, <<"d", "f">>, <<"d">>}
       THEN {BaseFs(path), taken}
       ELSE {BaseFs(path)}

InitWith(paths, budget) ==
    /\ target \in paths
    /\ fs \in StartFs(target)
    /\ now = [sec |-> 0, us |-> 0]
    /\ nextData = 1
    /\ calls = [p \in Callers |-> budget]
    /\ pc = [p \in Callers |-> "idle"]
    /\ parent = [p \in Callers |-> <<>>]
    /\ filename = [p \in Callers |-> ""]
    /\ time = [p \in Callers |-> ""]
    /\ backup_name = [p \in Callers |-> <<>>]
    /\ result = [p \in Callers |-> NoResult]
    /\ obs = [p \in Callers |-> NoObs]
    /\ hist = {}

Init == InitWith(Paths, MaxCalls)

(***************************************************************************)
(* The clock advances by one sub-second unit, carrying into the seconds.   *)
(***************************************************************************)
Tick ==
    /\ now # Horizon
    /\ now' = IF now.us + 1 < MicrosPerSec
              THEN [now EXCEPT !.us = now.us + 1]
              ELSE [sec |-> now.sec + 1, us |-> 0]
    /\ UNCHANGED <<fs, target, nextData, calls, pc, locals, result, obs, hist>>

(***************************************************************************)
(* The caller writes the target (tests: File::create + write_all, or       *)
(* fs::create_dir + a file inside).                                        *)
(***************************************************************************)
\* The filesystem with a directory and the files `names` inside it added.
WithDir(f, l, names, data) ==
    [x \in DOMAIN f \cup {l} \cup {l \o <<n>> : n \in names} |->
        IF x = l THEN DirEntry
        ELSE IF x \in DOMAIN f THEN f[x]
        ELSE FileEntry(IF Last(x) = "x" THEN data ELSE data + 100)]

Create(p) ==
    /\ pc[p] = "idle"
    /\ nextData <= MaxData
    /\ \/ /\ target \in FilePaths
          /\ IsDirAt(fs, Front(Loc(target)))
          /\ fs' = WithFile(fs, Loc(target), nextData)
       \/ /\ target \in DirPaths
          /\ Loc(target) \notin DOMAIN fs
          /\ \E names \in {{}, {"x", "y"}} :
                fs' = WithDir(fs, Loc(target), names, nextData)
    /\ nextData' = nextData + 1
    /\ UNCHANGED <<now, target, calls, pc, locals, result, obs, hist>>

(***************************************************************************)
(* backup, lines 106-143: validation, first clock sample, first name.      *)
(***************************************************************************)
Finish(p, n, r, o) ==
    /\ pc' = [pc EXCEPT ![p] = "done"]
    /\ result' = [result EXCEPT ![p] = r]
    /\ obs' = [obs EXCEPT ![p] = o]
    /\ hist' = IF r.ok
               THEN hist \cup {[caller |-> p, n |-> n, path |-> r.path,
                                tree |-> Subtree(fs, Loc(target))]}
               ELSE hist

\* The clock of the model ends at Horizon: a call starts before it, so
\* that the clock can still advance while the call probes.
Call(p, fault) ==
    /\ pc[p] = "idle"
    /\ calls[p] > 0
    /\ now # Horizon
    /\ calls' = [calls EXCEPT ![p] = calls[p] - 1]
    /\ LET v == Validation(fs, target, fault)
           o == [NoObs EXCEPT !.fs0 = fs, !.existed = EntryAt(fs, target), !.t0 = now,
                              !.faulted = IF fault /\ EntryAt(fs, target)
                                          THEN "exists" ELSE "none"]
       IN IF ~v.ok
          THEN /\ Finish(p, calls[p], v, o)
               /\ UNCHANGED <<fs, now, target, nextData, locals>>
          ELSE /\ parent' = [parent EXCEPT ![p] = ParentOf(target).path]
               /\ filename' = [filename EXCEPT ![p] = FileNameOf(target).path]
               /\ time' = [time EXCEPT ![p] = FormatTime(now)]
               /\ backup_name' = [backup_name EXCEPT ![p] =
                     BackupName(ParentOf(target).path, FileNameOf(target).path,
                                FormatTime(now))]
               /\ pc' = [pc EXCEPT ![p] = "probe"]
               /\ obs' = [obs EXCEPT ![p] = o]
               /\ UNCHANGED <<fs, now, target, nextData, result, hist>>

\* Variant: `if` for `while`: the name is recomposed once and not probed again.
ProbeIf(p, fault) ==
    /\ pc[p] = "probe"
    /\ LET there == EntryAt(fs, backup_name[p])
           o == [obs[p] EXCEPT !.firstFree = IF ~obs[p].looped THEN ~there ELSE @,
                               !.faulted = IF fault /\ there THEN "probe" ELSE @]
       IN IF PathExists(fs, backup_name[p], fault)
          THEN /\ backup_name' = [backup_name EXCEPT ![p] =
                      BackupNameMicros(parent[p], filename[p], now)]
               /\ obs' = [obs EXCEPT ![p] = [o EXCEPT !.looped = TRUE, !.sample = now]]
               /\ pc' = [pc EXCEPT ![p] = "rename"]
          ELSE /\ pc' = [pc EXCEPT ![p] = "rename"]
               /\ obs' = [obs EXCEPT ![p] = o]
               /\ UNCHANGED backup_name
    /\ UNCHANGED <<fs, now, target, nextData, calls, parent, filename, time, result, hist>>

\* Variant: a free name is reserved by creating an empty file at it.
ProbeTouch(p, fault) ==
    /\ pc[p] = "probe"
    /\ LET there == EntryAt(fs, backup_name[p])
           o == [obs[p] EXCEPT !.firstFree = IF ~obs[p].looped THEN ~there ELSE @,
                               !.faulted = IF fault /\ there THEN "probe" ELSE @]
       IN IF PathExists(fs, backup_name[p], fault)
          THEN /\ backup_name' = [backup_name EXCEPT ![p] =
                      BackupNameMicros(parent[p], filename[p], now)]
               /\ obs' = [obs EXCEPT ![p] = [o EXCEPT !.looped = TRUE, !.sample = now]]
               /\ UNCHANGED <<pc, fs>>
          ELSE /\ pc' = [pc EXCEPT ![p] = "rename"]
               /\ obs' = [obs EXCEPT ![p] = o]
               /\ fs' = WithFile(fs, Loc(backup_name[p]), 0)
               /\ UNCHANGED backup_name
    /\ UNCHANGED <<now, target, nextData, calls, parent, filename, time, result, hist>>

(***************************************************************************)
(* backup, lines 147-157: the loop condition and one iteration.            *)
(***************************************************************************)
Probe(p, fault) ==
    /\ pc[p] = "probe"
    /\ LET there == EntryAt(fs, backup_name[p])
           o == [obs[p] EXCEPT !.firstFree = IF ~obs[p].looped THEN ~there ELSE @,
                               !.faulted = IF fault /\ there THEN "probe" ELSE @]
       IN IF PathExists(fs, backup_name[p], fault)
          THEN /\ backup_name' = [backup_name EXCEPT ![p] =
                      BackupNameMicros(parent[p], filename[p], now)]
               /\ obs' = [obs EXCEPT ![p] = [o EXCEPT !.looped = TRUE, !.sample = now,
                                        !.wrapped = @ \/ (o.looped /\ now.us < o.sample.us)]]
               /\ UNCHANGED pc
          ELSE /\ pc' = [pc EXCEPT ![p] = "rename"]
               /\ obs' = [obs EXCEPT ![p] = o]
               /\ UNCHANGED backup_name
    /\ UNCHANGED <<fs, now, target, nextData, calls, parent, filename, time, result, hist>>

(***************************************************************************)
(* backup, lines 159-163: the rename and the returned value.               *)
(***************************************************************************)
Rename(p, fault) ==
    /\ pc[p] = "rename"
    /\ LET o == [obs[p] EXCEPT !.occupied = EntryAt(fs, backup_name[p]),
                               !.faulted = IF fault THEN "rename" ELSE @]
           r == RenameOutcome(fs, target, backup_name[p], fault)
           w == IF r.fs = fs THEN 0 ELSE 1
       IN /\ fs' = r.fs
          /\ IF r.ok
             THEN Finish(p, calls[p] + 1, Ok(backup_name[p]), [o EXCEPT !.writes = @ + w])
             ELSE Finish(p, calls[p] + 1, Err("Io", "os error"), [o EXCEPT !.writes = @ + w])
    /\ UNCHANGED <<now, target, nextData, calls, locals>>

\* The call has returned; the caller goes on.
Return(p) ==
    /\ pc[p] = "done"
    /\ pc' = [pc EXCEPT ![p] = "idle"]
    /\ parent' = [parent EXCEPT ![p] = <<>>]
    /\ filename' = [filename EXCEPT ![p] = ""]
    /\ time' = [time EXCEPT ![p] = ""]
    /\ backup_name' = [backup_name EXCEPT ![p] = <<>>]
    /\ result' = [result EXCEPT ![p] = NoResult]
    /\ obs' = [obs EXCEPT ![p] = NoObs]
    /\ UNCHANGED <<fs, now, target, nextData, calls, hist>>

(***************************************************************************)
(* Specifications.                                                         *)
(***************************************************************************)
\* One caller; filesystem calls may fail.
Next ==
    \/ Tick
    \/ Create("a")
    \/ \E fault \in BOOLEAN : Call("a", fault)
    \/ \E fault \in BOOLEAN : Probe("a", fault)
    \/ \E fault \in BOOLEAN : Rename("a", fault)
    \/ Return("a")

Spec == Init /\ [][Next]_vars

\* One caller, no I/O failure.
NextSeq ==
    \/ Tick
    \/ Create("a")
    \/ Call("a", FALSE)
    \/ Probe("a", FALSE)
    \/ Rename("a", FALSE)
    \/ Return("a")

SpecSeq == Init /\ [][NextSeq]_vars

\* One caller, no I/O failure, the clock keeps advancing and the caller
\* keeps running.
SpecLive ==
    /\ SpecSeq
    /\ WF_vars(Tick)
    /\ WF_vars(Probe("a", FALSE))
    /\ WF_vars(Rename("a", FALSE))

\* Two callers writing and backing up the same file, no I/O failure.
InitRace == InitWith({<<"f">>}, MaxRaceCalls)

NextRace ==
    \/ Tick
    \/ \E p \in Callers :
          \/ Create(p)
          \/ Call(p, FALSE)
          \/ Probe(p, FALSE)
          \/ Rename(p, FALSE)
          \/ Return(p)

SpecRace == InitRace /\ [][NextRace]_vars

(***************************************************************************)
(* Properties.                                                             *)
(***************************************************************************)
\* The paths that pass validation once they exist.
ValidPaths == {<<"f">>, <<"d", "f">>, <<"d">>}

Stamps == {FormatTime([sec |-> s, us |-> 0]) : s \in 0..Horizon.sec}
MicrosSuffixes == {""} \cup {"-" \o ToString(u) : u \in 0..(MicrosPerSec - 1)}

\* The name is "#<base>-<timestamp>#" or "#<base>-<timestamp>-<microseconds>#".
Delimited(name) ==
    \E b \in {Last(q) : q \in FilePaths \cup DirPaths}, ts \in Stamps, sfx \in MicrosSuffixes :
        name = "#" \o b \o "-" \o ts \o sfx \o "#"

Returned(p) == pc[p] = "done"
ReturnedOk(p) == pc[p] = "done" /\ result[p].ok
ReturnedErr(p) == pc[p] = "done" /\ ~result[p].ok

\* C1: when backup(Target) returns Ok(P) to a single caller, P lies in
\* Target's parent directory, its name is delimited by '#', nothing is left
\* at Target, and P holds exactly what Target held before the call, entry
\* by entry for a directory.
C1_BackupMovesTarget ==
    ReturnedOk("a") =>
        LET P == result["a"].path IN
        /\ obs["a"].existed
        /\ Front(Loc(P)) = Front(Loc(target))
        /\ Delimited(Last(P))
        /\ ~EntryAt(fs, target)
        /\ \A l \in DOMAIN fs : ~Under(l, Loc(target))
        /\ Subtree(fs, Loc(P)) = Subtree(obs["a"].fs0, Loc(target))

C1_Witness ==
    /\ ReturnedOk("a")
    /\ target = <<"d">>
    /\ Cardinality(DOMAIN Subtree(fs, Loc(result["a"].path))) = 3

\* C2: after any number of rounds "write Target, call backup(Target)" by
\* one caller, within one clock second or not, every call on an existing
\* valid Target returned Ok, the returned paths are pairwise distinct, all
\* of them still exist, and each holds what its Target held.
C2_RepeatedBackupsKept ==
    /\ (Returned("a") /\ obs["a"].existed /\ target \in ValidPaths) => result["a"].ok
    /\ \A h1, h2 \in hist : h1.n # h2.n => h1.path # h2.path
    /\ \A h \in hist :
          /\ EntryAt(fs, h.path)
          /\ Subtree(fs, Loc(h.path)) = h.tree

C2_Witness ==
    /\ Cardinality(hist) = MaxCalls
    /\ now.sec = 0
    /\ target = <<"f">>
    /\ Cardinality({fs[l].data : l \in DOMAIN fs}) = MaxCalls

\* C3: the checks run in a fixed order and the first failing one decides
\* the error: not existing, then no parent (root), then parent not UTF-8,
\* then no file name (ends in '..'), then file name not UTF-8; the empty
\* path gives NotFound.
C3_ValidationOrder ==
    Returned("a") =>
        LET r == result["a"]
            par == PathParent(target)
            name == PathFileName(target)
            parOk == par.some /\ PathToStr(par.val).some
        IN
        /\ ~obs["a"].existed =>
              r.kind = "NotFound" /\ r.msg = "Path does not exist."
        /\ (obs["a"].existed /\ ~par.some) =>
              r.kind = "Unsupported" /\ r.msg = "Path is root."
        /\ (obs["a"].existed /\ par.some /\ ~PathToStr(par.val).some) =>
              r.kind = "Unsupported" /\ r.msg = "Path is not a valid UTF-8."
        /\ (obs["a"].existed /\ parOk /\ ~name.some) =>
              r.kind = "Unsupported" /\ r.msg = "Path ends in '..'."
        /\ (obs["a"].existed /\ parOk /\ name.some /\ ~NameToStr(name.val).some) =>
              r.kind = "Unsupported" /\ r.msg = "Path is not a valid UTF-8."
        /\ target = <<>> => r.kind = "NotFound"

C3_Witness ==
    /\ Returned("a")
    /\ target = <<"<0xFF>", "..">>
    /\ result["a"].msg = "Path is not a valid UTF-8."

C9_OnlyTwoNamesChange ==
    /\ pc["a"] \in {"probe", "rename"} => (fs = obs["a"].fs0 /\ obs["a"].writes = 0)
    /\ ReturnedOk("a") =>
          LET P == Loc(result["a"].path)
              T == Loc(target)
              fs0 == obs["a"].fs0
              Other(l) == ~Under(l, T) /\ ~Under(l, P)
          IN
          /\ obs["a"].writes = 1
          /\ T \in DOMAIN fs0 /\ T \notin DOMAIN fs
          /\ P \notin DOMAIN fs0 /\ P \in DOMAIN fs
          /\ {l \in DOMAIN fs : Other(l)} = {l \in DOMAIN fs0 : Other(l)}
          /\ \A l \in DOMAIN fs : Other(l) => fs[l] = fs0[l]
          /\ \A h \in hist : h.path # result["a"].path =>
                Subtree(fs, Loc(h.path)) = h.tree

C9_Witness ==
    /\ ReturnedOk("a")
    /\ obs["a"].looped
    /\ \E h \in hist : h.path # result["a"].path /\ EntryAt(fs, h.path)
    /\ target = <<"d", "f">>

\* C8: a call that returns an error leaves the filesystem as it was before
\* the call: a failed validation and a failed rename write nothing, the
\* Target keeps its place and content, nothing appears at the candidate name.
C8_ErrorLeavesFilesystem ==
    ReturnedErr("a") =>
        /\ obs["a"].writes = 0
        /\ fs = obs["a"].fs0
        /\ result["a"].kind = "Io" =>
              /\ Subtree(fs, Loc(target)) = Subtree(obs["a"].fs0, Loc(target))
              /\ EntryAt(fs, backup_name["a"]) = EntryAt(obs["a"].fs0, backup_name["a"])

C8_Witness ==
    /\ ReturnedErr("a")
    /\ result["a"].kind = "Io"
    /\ obs["a"].faulted = "rename"
    /\ target = <<"d">>
    /\ Cardinality(DOMAIN Subtree(fs, Loc(target))) = 3
    /\ ~EntryAt(fs, backup_name["a"])

\* C7: every failure of a filesystem call made by backup (the existence
\* check on the Target, the existence probe of a candidate name, the
\* rename) is returned as an Io error; a failing existence check is never
\* reported as NotFound nor taken for a free name.
C7_IoFailuresReturnedAsIo ==
    (Returned("a") /\ obs["a"].faulted # "none") => result["a"].kind = "Io"

\* C5: whenever a call returns Ok(P), no entry existed at P at the moment
\* of that call's rename, also when another caller changes the directory
\* between the call's last probe and its rename.
C5_NameFreeAtRename ==
    \A p \in Callers : ReturnedOk(p) => ~obs[p].occupied

\* C6: two callers writing and backing up the same Target, in any
\* interleaving: a caller whose rename finds the candidate name taken gets
\* an Io error, and no content is lost: every returned backup path keeps
\* the content it was returned with.
C6_RaceLosesNothing ==
    /\ \A p \in Callers : (Returned(p) /\ obs[p].occupied) => result[p].kind = "Io"
    /\ \A h \in hist : Subtree(fs, Loc(h.path)) = h.tree

(***************************************************************************)
(* The probe loop of a single caller under a clock that keeps advancing.   *)
(***************************************************************************)
\* Instants compared as (second, microsecond) pairs.
TimeLeq(a, b) == a.sec < b.sec \/ (a.sec = b.sec /\ a.us <= b.us)

Terminates == (pc["a"] = "probe") ~> (pc["a"] = "done")

\* Two successive samples of one call's loop.
NextSample == pc["a"] = "probe" /\ pc'["a"] = "probe" /\ obs["a"].looped

\* The loop leaves at the first sample whose name is free: a free name is
\* never replaced by another one, and the rename is reached with a free name.
ExitsAtFirstFree ==
    /\ (pc["a"] = "probe" /\ ~EntryAt(fs, backup_name["a"])) =>
           (pc'["a"] \in {"probe", "rename"} /\ backup_name'["a"] = backup_name["a"])
    /\ pc'["a"] = "rename" => ~EntryAt(fs', backup_name'["a"])

\* C10 as stated: the loop terminates, successive microsecond samples are
\* non-decreasing, and the loop exits at the first sample whose name is free.
C10_MicrosNonDecreasing ==
    /\ Terminates
    /\ [][NextSample => obs'["a"].sample.us >= obs["a"].sample.us]_vars
    /\ [][ExitsAtFirstFree]_vars

\* C10 amended: the loop terminates, successive samples are non-decreasing
\* as (second, microsecond) pairs, the microsecond value alone starting
\* again from 0 with each new second, and the loop exits at the first
\* sample whose name is free.
C10_SamplesNonDecreasing ==
    /\ Terminates
    /\ [][NextSample => TimeLeq(obs["a"].sample, obs'["a"].sample)]_vars
    /\ [][ExitsAtFirstFree]_vars

C10_Witness ==
    /\ ReturnedOk("a")
    /\ obs["a"].wrapped

====
